---- MODULE Spec2Model ----
(***************************************************************************)
(* Model of the configuration resolver (src/utils/config.py) and of the    *)
(* OpenAI-format LLM client (src/llms/llm.py).                             *)
(*                                                                         *)
(* Text is a sequence of symbols.  A symbol is a one-element piece of a    *)
(* string: a character such as " ", "#", "=", "7", or a word that the      *)
(* program never looks inside, such as "API_KEY".  The empty string is     *)
(* the empty sequence.  A Python value is a record [t, s, n]: its type     *)
(* tag, its text (for a str) and its number (for an int or a bool).       *)
(***************************************************************************)
EXTENDS Integers, Sequences, FiniteSets, TLC

VARIABLES
    exists,         \* the filesystem: the set of paths for which os.path.exists is true
    config_file,    \* load_config's argument config_file
    method,         \* load_config's argument method
    source,         \* what the selected file holds (lines, or a module namespace)
    file_to_load,   \* load_config's local file_to_load
    outcome,        \* how load_config ended: "idle", "Settings" or the exception raised
    config,         \* the Config that load_config returned
    llm_args,       \* the arguments of the LLM(...) construction
    llm_outcome,    \* how the construction ended: "idle", "LLM" or the exception raised
    client,         \* the constructed LLM instance
    calls,          \* the invoke calls: their position, their request, the requests sent
    last,           \* the invoke call that ended last: request, provider reply, result
    providerCalls,  \* number of chat.completions.create requests the provider received
    info            \* what get_model_info returned last

vars == <<exists, config_file, method, source, file_to_load, outcome, config,
          llm_args, llm_outcome, client, calls, last, providerCalls, info>>

configVars == <<exists, config_file, method, source, file_to_load, outcome, config>>

llmVars == <<calls, last, providerCalls, info>>

(***************************************************************************)
(* Bounds of the model.                                                    *)
(***************************************************************************)
\* lines of a flat file after its credential lines
MaxLines == 1
\* constants a structured source defines besides its credentials
MaxDefs == 1
\* invoke calls on one client
MaxInvokes == 2
\* candidates in one provider response
MaxChoices == 2

(***************************************************************************)
(* Python values.                                                          *)
(***************************************************************************)
NoneV == [t |-> "none", s |-> <<>>, n |-> 0]

StrV(text) == [t |-> "str", s |-> text, n |-> 0]

IntV(k) == [t |-> "int", s |-> <<>>, n |-> k]

BoolV(b) == [t |-> "bool", s |-> <<>>, n |-> IF b THEN 1 ELSE 0]

\* a name the module namespace does not define
Undef == [t |-> "undef", s |-> <<>>, n |-> 0]

\* Python truthiness, as `not x` and `x or y` use it
Truthy(v) ==
    CASE v.t = "none" -> FALSE
      [] v.t = "str"  -> v.s # <<>>
      [] v.t = "int"  -> v.n # 0
      [] v.t = "bool" -> v.n # 0
      [] OTHER        -> TRUE

SeqsUpTo(S, k) == UNION {[1..m -> S] : m \in 0..k}

(***************************************************************************)
(* str methods the flat parser uses.                                       *)
(***************************************************************************)
IsSpace(c) == c \in {" ", "\t", "\n"}

RECURSIVE LStrip(_)
LStrip(s) == IF s # <<>> /\ IsSpace(Head(s)) THEN LStrip(Tail(s)) ELSE s

RECURSIVE RStrip(_)
RStrip(s) ==
    IF s # <<>> /\ IsSpace(s[Len(s)]) THEN RStrip(SubSeq(s, 1, Len(s) - 1)) ELSE s

\* str.strip()
Strip(s) == RStrip(LStrip(s))

\* '=' in line
HasEq(s) == \E i \in 1..Len(s) : s[i] = "="

FirstEq(s) == CHOOSE i \in 1..Len(s) : s[i] = "=" /\ \A j \in 1..(i - 1) : s[j] # "="

\* line.split('=', 1), for a line that holds '='
SplitEq(s) == <<SubSeq(s, 1, FirstEq(s) - 1), SubSeq(s, FirstEq(s) + 1, Len(s))>>

\* str.lower(), symbol by symbol
LowerSym(c) ==
    CASE c \in {"True", "TRUE", "true"} -> "true"
      [] c = "No" -> "no"
      [] OTHER -> c

Lower(s) == [i \in 1..Len(s) |-> LowerSym(s[i])]

(***************************************************************************)
(* int(text): an optional sign, then digits, single underscores allowed    *)
(* between digits.  Surrounding whitespace is ignored.                     *)
(***************************************************************************)
Digits == {"0", "1", "2", "3", "4", "5", "6", "7", "8", "9"}

DigitVal(c) ==
    CASE c = "0" -> 0 [] c = "1" -> 1 [] c = "2" -> 2 [] c = "3" -> 3 [] c = "4" -> 4
      [] c = "5" -> 5 [] c = "6" -> 6 [] c = "7" -> 7 [] c = "8" -> 8 [] c = "9" -> 9

\* the digits of an unsigned literal are well formed
UnsignedOk(s) ==
    /\ s # <<>>
    /\ s[1] \in Digits
    /\ s[Len(s)] \in Digits
    /\ \A i \in 1..Len(s) : s[i] \in Digits \cup {"_"}
    /\ \A i \in 1..(Len(s) - 1) : ~(s[i] = "_" /\ s[i + 1] = "_")

RECURSIVE UnsignedVal(_)
UnsignedVal(s) ==
    IF s = <<>> THEN 0
    ELSE IF s[Len(s)] = "_" THEN UnsignedVal(SubSeq(s, 1, Len(s) - 1))
    ELSE 10 * UnsignedVal(SubSeq(s, 1, Len(s) - 1)) + DigitVal(s[Len(s)])

\* int(text): [ok |-> TRUE, n |-> value], or [ok |-> FALSE] for the ValueError
ParseInt(text) ==
    LET s == Strip(text)
        signed == s # <<>> /\ s[1] \in {"+", "-"}
        body == IF signed THEN Tail(s) ELSE s
    IN  IF UnsignedOk(body)
        THEN [ok |-> TRUE, n |-> IF signed /\ s[1] = "-" THEN 0 - UnsignedVal(body)
                                 ELSE UnsignedVal(body)]
        ELSE [ok |-> FALSE, n |-> 0]

(***************************************************************************)
(* Config: the dataclass and its defaults.                                 *)
(***************************************************************************)
DefaultMaxSearchResults == 3
DefaultSearchTimeout == 240
DefaultMaxContentLength == 20000
DefaultMaxReflections == 2
DefaultMaxParagraphs == 5

NumericFields ==
    {"max_search_results", "search_timeout", "max_content_length",
     "max_reflections", "max_paragraphs"}

\* the source key of each numeric field
NumericKey(f) ==
    CASE f = "max_search_results" -> "SEARCH_RESULTS_PER_QUERY"
      [] f = "search_timeout"     -> "SEARCH_TIMEOUT"
      [] f = "max_content_length" -> "SEARCH_CONTENT_MAX_LENGTH"
      [] f = "max_reflections"    -> "MAX_REFLECTIONS"
      [] f = "max_paragraphs"     -> "MAX_PARAGRAPHS"

\* the dataclass default of each numeric field
NumericDefault(f) ==
    CASE f = "max_search_results" -> DefaultMaxSearchResults
      [] f = "search_timeout"     -> DefaultSearchTimeout
      [] f = "max_content_length" -> DefaultMaxContentLength
      [] f = "max_reflections"    -> DefaultMaxReflections
      [] f = "max_paragraphs"     -> DefaultMaxParagraphs

\* the default text the flat branch hands to int() for an absent key
NumericDefaultText(f) ==
    CASE f = "max_search_results" -> <<"3">>
      [] f = "search_timeout"     -> <<"2", "4", "0">>
      [] f = "max_content_length" -> <<"2", "0", "0", "0", "0">>
      [] f = "max_reflections"    -> <<"2">>
      [] f = "max_paragraphs"     -> <<"5">>

\* a Config that was never built
NoConfig == [base_url |-> NoneV, api_key |-> NoneV, tavily_api_key |-> NoneV,
             model |-> Undef,
             max_search_results |-> Undef, search_timeout |-> Undef,
             max_content_length |-> Undef, max_reflections |-> Undef,
             max_paragraphs |-> Undef, output_dir |-> Undef,
             save_intermediate_states |-> Undef]

\* a faulty validate that forgets the Tavily key
ValidateNoTavily(c) == Truthy(c.api_key)

\* Config.validate: the result, True or False
Validate(c) ==
    IF ~Truthy(c.api_key) THEN FALSE
    ELSE IF ~Truthy(c.tavily_api_key) THEN FALSE
    ELSE TRUE

(***************************************************************************)
(* Exceptions, named by where the code raises them.                        *)
(***************************************************************************)
\* FileNotFoundError of load_config
ConfigNotFound == "FileNotFoundError"
\* ValueError of load_config, after validate() returned False
InvalidConfig == "ValueError: validate"
\* ValueError of int() in the flat branch of from_file
ConfigParseError == "ValueError: int"
\* from_file's structured branch reads base_url before any branch bound it
UnboundLocal == "UnboundLocalError"
\* the three ValueErrors of LLM.__init__
MissingCredential == "ValueError: api_key"
MissingEndpoint == "ValueError: base_url"
MissingModel == "ValueError: model_name"

(***************************************************************************)
(* Config.from_file, flat branch.                                          *)
(***************************************************************************)
EmptyDict == [k \in {} |-> <<>>]

DictPut(d, k, v) == [x \in DOMAIN d \cup {k} |-> IF x = k THEN v ELSE d[x]]

\* the loop body: one line of the file
FlatLine(d, raw) ==
    LET line == Strip(raw)
    IN  IF line # <<>> /\ line[1] # "#" /\ HasEq(line)
        THEN DictPut(d, Strip(SplitEq(line)[1]), Strip(SplitEq(line)[2]))
        ELSE d

\* config_dict after the loop over the lines
RECURSIVE FlatDict(_)
FlatDict(lines) ==
    IF lines = <<>> THEN EmptyDict
    ELSE FlatLine(FlatDict(SubSeq(lines, 1, Len(lines) - 1)), lines[Len(lines)])

\* config_dict.get(key): the text as a str, or None
DictGet(d, key) == IF <<key>> \in DOMAIN d THEN StrV(d[<<key>>]) ELSE NoneV

\* config_dict.get(key, default): the text
DictGetText(d, key, default) == IF <<key>> \in DOMAIN d THEN d[<<key>>] ELSE default

\* a faulty conversion that falls back to the default when int() fails
FlatIntLenient(d, f) ==
    LET r == ParseInt(DictGetText(d, NumericKey(f), NumericDefaultText(f)))
    IN  IF r.ok THEN r ELSE [ok |-> TRUE, n |-> NumericDefault(f)]

\* int(config_dict.get(KEY, "<default>")) of one numeric field
FlatInt(d, f) == ParseInt(DictGetText(d, NumericKey(f), NumericDefaultText(f)))

\* the else branch of from_file: [err, config]
FlatFromFile(lines) ==
    LET d == FlatDict(lines)
    IN  IF \E f \in NumericFields : ~FlatInt(d, f).ok
        THEN [err |-> ConfigParseError, config |-> NoConfig]
        ELSE [err |-> "",
              config |->
                [base_url |-> DictGet(d, "BASE_URL"),
                 api_key |-> DictGet(d, "API_KEY"),
                 tavily_api_key |-> DictGet(d, "TAVILY_API_KEY"),
                 model |-> StrV(DictGetText(d, "MODEL_NAME", <<"deepseek-chat">>)),
                 max_search_results |-> IntV(FlatInt(d, "max_search_results").n),
                 search_timeout |-> IntV(FlatInt(d, "search_timeout").n),
                 max_content_length |-> IntV(FlatInt(d, "max_content_length").n),
                 max_reflections |-> IntV(FlatInt(d, "max_reflections").n),
                 max_paragraphs |-> IntV(FlatInt(d, "max_paragraphs").n),
                 output_dir |-> StrV(DictGetText(d, "OUTPUT_DIR", <<"reports">>)),
                 save_intermediate_states |->
                    BoolV(Lower(DictGetText(d, "SAVE_INTERMEDIATE_STATES", <<"true">>))
                            = <<"true">>)]]

(***************************************************************************)
(* Config.from_file, structured branch.  The module namespace is a         *)
(* function from the constant names to their values, Undef where the       *)
(* module does not define the name.                                        *)
(***************************************************************************)
ProfileNames ==
    {"DEEPSEEK_BASE_URL", "DEEPSEEK_API_KEY", "DEEPSEEK_MODEL",
     "OPENAI_BASE_URL", "OPENAI_API_KEY", "OPENAI_MODEL"}

NumericNames == {NumericKey(f) : f \in NumericFields}

PyNames ==
    ProfileNames \cup NumericNames
        \cup {"TAVILY_API_KEY", "OUTPUT_DIR", "SAVE_INTERMEDIATE_STATES"}

EmptyNs == [n \in PyNames |-> Undef]

\* getattr(config_module, name, default)
GetAttr(ns, name, default) == IF ns[name] = Undef THEN default ELSE ns[name]

\* x or None
OrNone(v) == IF Truthy(v) THEN v ELSE NoneV

\* a faulty advanced branch that reads the basic profile's model constant
ProfileLocalsCrossed(ns, m) ==
    IF m = "advanced"
    THEN [base_url |-> GetAttr(ns, "OPENAI_BASE_URL", NoneV),
          api_key |-> GetAttr(ns, "OPENAI_API_KEY", NoneV),
          model |-> GetAttr(ns, "DEEPSEEK_MODEL", StrV(<<"deepseek-chat">>))]
    ELSE [base_url |-> GetAttr(ns, "DEEPSEEK_BASE_URL", NoneV),
          api_key |-> GetAttr(ns, "DEEPSEEK_API_KEY", NoneV),
          model |-> GetAttr(ns, "DEEPSEEK_MODEL", StrV(<<"deepseek-chat">>))]

\* the locals base_url, api_key, model after the two ifs on method
ProfileLocals(ns, m) ==
    IF m = "advanced"
    THEN [base_url |-> GetAttr(ns, "OPENAI_BASE_URL", NoneV),
          api_key |-> GetAttr(ns, "OPENAI_API_KEY", NoneV),
          model |-> GetAttr(ns, "OPENAI_MODEL", StrV(<<"gpt-4o-mini">>))]
    ELSE [base_url |-> GetAttr(ns, "DEEPSEEK_BASE_URL", NoneV),
          api_key |-> GetAttr(ns, "DEEPSEEK_API_KEY", NoneV),
          model |-> GetAttr(ns, "DEEPSEEK_MODEL", StrV(<<"deepseek-chat">>))]

\* the .py branch of from_file: [err, config]
PyFromFile(ns, m) ==
    IF m \notin {"basic", "advanced"}
    THEN [err |-> UnboundLocal, config |-> NoConfig]
    ELSE [err |-> "",
          config |->
            [base_url |-> OrNone(ProfileLocals(ns, m).base_url),
             api_key |-> ProfileLocals(ns, m).api_key,
             model |-> ProfileLocals(ns, m).model,
             tavily_api_key |-> GetAttr(ns, "TAVILY_API_KEY", NoneV),
             max_search_results |->
                GetAttr(ns, "SEARCH_RESULTS_PER_QUERY", IntV(DefaultMaxSearchResults)),
             search_timeout |-> GetAttr(ns, "SEARCH_TIMEOUT", IntV(DefaultSearchTimeout)),
             max_content_length |->
                GetAttr(ns, "SEARCH_CONTENT_MAX_LENGTH", IntV(DefaultMaxContentLength)),
             max_reflections |-> GetAttr(ns, "MAX_REFLECTIONS", IntV(DefaultMaxReflections)),
             max_paragraphs |-> GetAttr(ns, "MAX_PARAGRAPHS", IntV(DefaultMaxParagraphs)),
             output_dir |-> GetAttr(ns, "OUTPUT_DIR", StrV(<<"reports">>)),
             save_intermediate_states |->
                GetAttr(ns, "SAVE_INTERMEDIATE_STATES", BoolV(TRUE))]]

\* config_file.endswith('.py')
EndsWithPy(path) == path # <<>> /\ path[Len(path)] = ".py"

\* Config.from_file(config_file, method), on what the file holds.  load_config
\* calls it on a path that exists, so the flat branch's own os.path.exists test
\* (line 86) is true and the file is read.
FromFile(path, src, m) ==
    IF EndsWithPy(path) THEN PyFromFile(src.ns, m) ELSE FlatFromFile(src.lines)

(***************************************************************************)
(* The inputs: the filesystem, the arguments and the files' contents.      *)
(***************************************************************************)
MyConfigPy == <<"myconfig", ".py">>
ConfigEnv == <<"config", ".env">>
DotEnv == <<".env">>
CustomEnv == <<"custom", ".env">>

\* the probe list of load_config, in its order
ProbeOrder == <<MyConfigPy, ConfigEnv, DotEnv>>

Files == {MyConfigPy, ConfigEnv, DotEnv, CustomEnv}

\* config_file: not passed (None), the empty string, or a path
ConfigFileArgs == {NoneV, StrV(<<>>), StrV(CustomEnv)}

Methods == {"basic", "advanced", "other"}

NoSource == [kind |-> "none", lines |-> <<>>, ns |-> EmptyNs]

\* the line KEY=value
KV(k, v) == <<k, "=">> \o v

FlatPreambles ==
    {<<>>,
     <<KV("API_KEY", <<"k">>)>>,
     <<KV("TAVILY_API_KEY", <<"t">>)>>,
     <<KV("API_KEY", <<"k">>), KV("TAVILY_API_KEY", <<"t">>)>>}

BodyLines ==
    {KV(NumericKey(f), v) : f \in NumericFields, v \in {<<"7">>, <<"x">>, <<>>}}
        \cup {KV("BASE_URL", <<"u">>), KV("BASE_URL", <<>>),
              KV("BASE_URL", <<"u", "=", "v">>),
              KV("MODEL_NAME", <<"m">>), KV("MODEL_NAME", <<>>),
              KV("API_KEY", <<>>), KV("TAVILY_API_KEY", <<>>),
              KV("OUTPUT_DIR", <<"out">>),
              KV("SAVE_INTERMEDIATE_STATES", <<"True">>),
              KV("SAVE_INTERMEDIATE_STATES", <<"No">>),
              KV("MAX_REFLECTIONS", <<"-", "7">>),
              <<" ", "SEARCH_TIMEOUT", " ", "=", " ", "1", "_", "0", " ", "\n">>,
              <<" ", "#", " ", "SEARCH_TIMEOUT", "=", "x">>,
              <<"SEARCH_TIMEOUT">>,
              <<" ", "\n">>}

FlatSources ==
    {[kind |-> "flat", lines |-> pre \o body, ns |-> EmptyNs] :
        pre \in FlatPreambles, body \in SeqsUpTo(BodyLines, MaxLines)}

\* the values a structured source may give a constant
PyValues(name) ==
    IF name \in NumericNames THEN {IntV(7), StrV(<<"x">>)}
    ELSE IF name = "SAVE_INTERMEDIATE_STATES" THEN {BoolV(FALSE)}
    ELSE IF name = "OUTPUT_DIR" THEN {StrV(<<"out">>)}
    ELSE {NoneV, StrV(<<>>), StrV(<<name>>)}

Define(ns, name, v) == [ns EXCEPT ![name] = v]

PyPreambles ==
    {EmptyNs,
     Define(Define(EmptyNs, "DEEPSEEK_API_KEY", StrV(<<"dk">>)),
            "TAVILY_API_KEY", StrV(<<"t">>)),
     Define(Define(EmptyNs, "OPENAI_API_KEY", StrV(<<"ok">>)),
            "TAVILY_API_KEY", StrV(<<"t">>)),
     Define(Define(Define(EmptyNs, "DEEPSEEK_API_KEY", StrV(<<"dk">>)),
                   "OPENAI_API_KEY", StrV(<<"ok">>)),
            "TAVILY_API_KEY", StrV(<<"t">>))}

\* the namespaces that define the names of D on top of ns
RECURSIVE PyDefineAll(_, _)
PyDefineAll(nss, D) ==
    IF D = {} THEN nss
    ELSE LET name == CHOOSE x \in D : TRUE
         IN  PyDefineAll({Define(ns, name, v) : ns \in nss, v \in PyValues(name)},
                         D \ {name})

PySources ==
    {[kind |-> "py", lines |-> <<>>, ns |-> ns] :
        ns \in UNION {PyDefineAll(PyPreambles, D) :
                        D \in {E \in SUBSET PyNames : Cardinality(E) <= MaxDefs}}}

\* what the file at path may hold
Contents(path) == IF EndsWithPy(path) THEN PySources ELSE FlatSources

(***************************************************************************)
(* load_config.                                                            *)
(***************************************************************************)
\* the for-else over the probe list: the first existing name, or none
FirstExisting(fs) ==
    IF \E i \in 1..Len(ProbeOrder) : ProbeOrder[i] \in fs
    THEN [found |-> TRUE,
          path |-> ProbeOrder[CHOOSE i \in 1..Len(ProbeOrder) :
                        /\ ProbeOrder[i] \in fs
                        /\ \A j \in 1..(i - 1) : ProbeOrder[j] \notin fs]]
    ELSE [found |-> FALSE, path |-> <<>>]

\* a faulty selection that probes when the explicit path does not exist
SelectSourceFallback(cf, fs) ==
    IF Truthy(cf) /\ cf.s \in fs THEN [found |-> TRUE, path |-> cf.s]
    ELSE FirstExisting(fs)

\* lines 120-132: file_to_load, or the FileNotFoundError
SelectSource(cf, fs) ==
    IF Truthy(cf)
    THEN IF cf.s \notin fs THEN [found |-> FALSE, path |-> <<>>]
         ELSE [found |-> TRUE, path |-> cf.s]
    ELSE FirstExisting(fs)

\* lines 134-141: the Config, or the exception from_file or the validation raises
ParseAndValidate(path, src, m) ==
    LET r == FromFile(path, src, m)
    IN  IF r.err # "" THEN r
        ELSE IF ~Validate(r.config) THEN [err |-> InvalidConfig, config |-> NoConfig]
        ELSE r

LoadConfig ==
    /\ outcome = "idle"
    /\ llm_outcome = "idle"
    /\ \E cf \in ConfigFileArgs, m \in Methods :
        /\ config_file' = cf
        /\ method' = m
        /\ IF ~SelectSource(cf, exists).found
           THEN /\ outcome' = ConfigNotFound
                /\ file_to_load' = NoneV
                /\ source' = NoSource
                /\ config' = NoConfig
           ELSE \E src \in Contents(SelectSource(cf, exists).path) :
                LET path == SelectSource(cf, exists).path
                    r == ParseAndValidate(path, src, m)
                IN  /\ file_to_load' = StrV(path)
                    /\ source' = src
                    /\ outcome' = IF r.err = "" THEN "Settings" ELSE r.err
                    /\ config' = r.config
    /\ UNCHANGED <<exists, llm_args, llm_outcome, client, calls, last, providerCalls, info>>

(***************************************************************************)
(* LLM.__init__.                                                           *)
(***************************************************************************)
NoClient == [api_key |-> Undef, base_url |-> Undef, model_name |-> Undef,
             default_model |-> Undef]

NoArgs == [api_key |-> Undef, base_url |-> Undef, model_name |-> Undef]

\* BaseLLM.__init__(api_key, base_url, model_name): stores its three arguments
BaseInit(api_key, base_url, model_name) ==
    [api_key |-> api_key, base_url |-> base_url, model_name |-> model_name,
     default_model |-> Undef]

\* a faulty constructor that does not check the model name
LLMInitNoModelCheck(api_key, base_url, model_name) ==
    IF api_key = NoneV THEN [err |-> MissingCredential, client |-> NoClient]
    ELSE IF base_url = NoneV THEN [err |-> MissingEndpoint, client |-> NoClient]
    ELSE [err |-> "",
          client |-> [BaseInit(api_key, base_url, model_name)
                        EXCEPT !.default_model = model_name]]

\* LLM(api_key, base_url, model_name): [err, client].  Building the OpenAI
\* client object sends nothing to the provider.
LLMInit(api_key, base_url, model_name) ==
    IF api_key = NoneV THEN [err |-> MissingCredential, client |-> NoClient]
    ELSE IF base_url = NoneV THEN [err |-> MissingEndpoint, client |-> NoClient]
    ELSE LET self == BaseInit(api_key, base_url, model_name)
         IN  IF Truthy(self.model_name)
             THEN [err |-> "", client |-> [self EXCEPT !.default_model = self.model_name]]
             ELSE [err |-> MissingModel, client |-> NoClient]

\* the construction proper, from the given arguments
Construct(api_key, base_url, model_name) ==
    LET r == LLMInit(api_key, base_url, model_name)
    IN  /\ llm_args' = [api_key |-> api_key, base_url |-> base_url,
                        model_name |-> model_name]
        /\ llm_outcome' = IF r.err = "" THEN "LLM" ELSE r.err
        /\ client' = r.client

\* a caller constructs a client from arguments of its own
NewLLM ==
    /\ llm_outcome = "idle"
    /\ outcome = "idle"
    /\ \E k \in {NoneV, StrV(<<"k">>)}, u \in {NoneV, StrV(<<>>), StrV(<<"u">>)},
          m \in {NoneV, StrV(<<>>), StrV(<<"m">>)} : Construct(k, u, m)
    /\ UNCHANGED <<configVars, llmVars>>

\* the caller of load_config constructs the client from the Config it got
BuildClient ==
    /\ llm_outcome = "idle"
    /\ outcome = "Settings"
    /\ Construct(config.api_key, config.base_url, config.model)
    /\ UNCHANGED <<configVars, llmVars>>

(***************************************************************************)
(* LLM.invoke and LLM.get_model_info.                                      *)
(***************************************************************************)
DefaultMaxTokens == 4000

\* the keyword arguments of an invoke call
Kwargs ==
    {[k \in {} |-> NoneV],
     [k \in {"temperature"} |-> StrV(<<"0.2">>)],
     [k \in {"max_tokens", "top_p"} |-> IntV(100)]}

\* kwargs.get(key, default)
KwGet(kw, key, default) == IF key \in DOMAIN kw THEN kw[key] ELSE default

\* the params of the completion request
Params(self, system_prompt, user_prompt, kw) ==
    [model |-> self.default_model,
     messages |-> <<[role |-> "system", content |-> system_prompt],
                    [role |-> "user", content |-> user_prompt]>>,
     temperature |-> KwGet(kw, "temperature", StrV(<<"0.7">>)),
     max_tokens |-> KwGet(kw, "max_tokens", IntV(DefaultMaxTokens)),
     stream |-> FALSE]

NoParams == [model |-> Undef, messages |-> <<>>, temperature |-> Undef,
             max_tokens |-> Undef, stream |-> FALSE]

\* one candidate of a response: its message is None, or has a content
Choices ==
    {[message |-> FALSE, content |-> NoneV]}
        \cup {[message |-> TRUE, content |-> c] :
                c \in {NoneV, StrV(<<"a">>), StrV(<<"b">>)}}

\* what the provider does with a request: it raises, or it answers
ProviderErrors == {"APITimeoutError", "AuthenticationError"}

Replies ==
    {[error |-> e, choices |-> <<>>] : e \in ProviderErrors}
        \cup {[error |-> "", choices |-> cs] : cs \in SeqsUpTo(Choices, MaxChoices)}

\* BaseLLM.validate_response: None becomes "", text passes unchanged
validate_response(content) == IF content = NoneV THEN StrV(<<>>) ELSE content

\* a faulty extraction that reads the last candidate
AfterReplyLastChoice(reply) ==
    IF reply.error # "" THEN [raised |-> reply.error, value |-> Undef]
    ELSE IF reply.choices # <<>> /\ reply.choices[Len(reply.choices)].message
         THEN [raised |-> "",
               value |-> validate_response(reply.choices[Len(reply.choices)].content)]
         ELSE [raised |-> "", value |-> StrV(<<>>)]

\* lines 73-81: what invoke does with the provider's reply
AfterReply(reply) ==
    IF reply.error # "" THEN [raised |-> reply.error, value |-> Undef]
    ELSE IF reply.choices # <<>> /\ reply.choices[1].message
         THEN [raised |-> "", value |-> validate_response(reply.choices[1].content)]
         ELSE [raised |-> "", value |-> StrV(<<>>)]

NoCall == [pc |-> "idle", request |-> NoParams, requests |-> 0]

NoLast == [call |-> 0, reply |-> [error |-> "", choices |-> <<>>], raised |-> "",
           value |-> Undef]

\* invoke, up to the blocking create(**params): the request goes out
InvokeCall(i) ==
    /\ llm_outcome = "LLM"
    /\ calls[i].pc = "idle"
    /\ \E kw \in Kwargs :
         calls' = [calls EXCEPT ![i] =
                     [pc |-> "waiting",
                      request |-> Params(client, <<"sys">>, <<"q">>, kw),
                      requests |-> 1]]
    /\ providerCalls' = providerCalls + 1
    /\ UNCHANGED <<configVars, llm_args, llm_outcome, client, last, info>>

\* a faulty invoke that sends the request once more when the provider fails
InvokeReturnRetry(i) ==
    /\ calls[i].pc = "waiting"
    /\ \E reply \in Replies :
         IF reply.error # "" /\ calls[i].requests < 2
         THEN /\ calls' = [calls EXCEPT ![i].requests = @ + 1]
              /\ providerCalls' = providerCalls + 1
              /\ last' = last
         ELSE /\ calls' = [calls EXCEPT ![i] =
                  [pc |-> IF AfterReply(reply).raised # "" THEN "raised" ELSE "returned",
                   request |-> NoParams, requests |-> calls[i].requests]]
              /\ last' = [call |-> i, reply |-> reply,
                          raised |-> AfterReply(reply).raised,
                          value |-> AfterReply(reply).value]
              /\ providerCalls' = providerCalls
    /\ UNCHANGED <<configVars, llm_args, llm_outcome, client, info>>

\* invoke, from the provider's reply to the return or the raise
InvokeReturn(i) ==
    /\ calls[i].pc = "waiting"
    /\ \E reply \in Replies :
         /\ calls' = [calls EXCEPT ![i] =
                  [pc |-> IF AfterReply(reply).raised # "" THEN "raised" ELSE "returned",
                   request |-> NoParams, requests |-> calls[i].requests]]
         /\ last' = [call |-> i, reply |-> reply,
                     raised |-> AfterReply(reply).raised,
                     value |-> AfterReply(reply).value]
    /\ UNCHANGED <<configVars, llm_args, llm_outcome, client, providerCalls, info>>

NoInfo == [model |-> Undef, base_url |-> Undef]

\* a faulty accessor that reports the wrong attribute as base_url
ModelInfoWrongField(self) == [model |-> self.default_model, base_url |-> self.api_key]

\* get_model_info(): the dictionary it returns
ModelInfo(self) == [model |-> self.default_model, base_url |-> self.base_url]

GetModelInfo ==
    /\ llm_outcome = "LLM"
    /\ info' = ModelInfo(client)
    /\ UNCHANGED <<configVars, llm_args, llm_outcome, client, calls, last, providerCalls>>

(***************************************************************************)
(* The specifications.                                                     *)
(***************************************************************************)
InitLLM ==
    /\ config_file = NoneV
    /\ method = "basic"
    /\ source = NoSource
    /\ file_to_load = NoneV
    /\ outcome = "idle"
    /\ config = NoConfig
    /\ llm_args = NoArgs
    /\ llm_outcome = "idle"
    /\ client = NoClient
    /\ calls = [i \in 1..MaxInvokes |-> NoCall]
    /\ last = NoLast
    /\ providerCalls = 0
    /\ info = NoInfo

Init ==
    /\ exists \in SUBSET Files
    /\ InitLLM

\* configuration resolution, then the client built from the Config
Next ==
    \/ LoadConfig
    \/ BuildClient

Spec == Init /\ [][Next]_vars

\* a client built from a caller's arguments, and its calls
NextLLM ==
    \/ NewLLM
    \/ \E i \in 1..MaxInvokes : InvokeCall(i)
    \/ \E i \in 1..MaxInvokes : InvokeReturn(i)
    \/ GetModelInfo

InitClient ==
    /\ exists = {}
    /\ InitLLM

SpecLLM == InitClient /\ [][NextLLM]_vars

(***************************************************************************)
(* Properties of configuration resolution (checked under Spec).            *)
(***************************************************************************)
\* load_config ended, and it read a file
Loaded == outcome # "idle" /\ source.kind # "none"

\* what from_file made of the file that was read
Parsed == FromFile(file_to_load.s, source, method)

\* neither None nor the empty string
NonEmpty(v) == v # NoneV /\ v # StrV(<<>>)

\* C1: load_config returns a Settings only when the parsed api_key and the
\* parsed Tavily key are both non-empty, and the Settings is the parsed one;
\* whenever the file parsed and one of the two is None or "", resolution
\* ends in the validation ValueError (InvalidConfig) and returns no Settings.
C1_CredentialsValidated ==
    /\ outcome = "Settings" =>
         /\ Parsed.err = ""
         /\ config = Parsed.config
         /\ NonEmpty(config.api_key)
         /\ NonEmpty(config.tavily_api_key)
    /\ (Loaded /\ Parsed.err = ""
          /\ ~(NonEmpty(Parsed.config.api_key) /\ NonEmpty(Parsed.config.tavily_api_key)))
         => (outcome = InvalidConfig /\ config = NoConfig)

\* a flat file with a good API_KEY and the line TAVILY_API_KEY= is refused
C1_Witness ==
    /\ outcome = InvalidConfig
    /\ source.kind = "flat"
    /\ Parsed.config.api_key = StrV(<<"k">>)
    /\ Parsed.config.tavily_api_key = StrV(<<>>)

\* the first name of the probe list that exists, if any does
ProbeHit(i) ==
    /\ ProbeOrder[i] \in exists
    /\ \A j \in 1..(i - 1) : ProbeOrder[j] \notin exists

\* the second half of C2: without a path, the first existing name of
\* myconfig.py, config.env, .env is loaded, and resolution fails with
\* ConfigNotFound exactly when none of the three exists
ProbedInOrder ==
    /\ \A i \in 1..Len(ProbeOrder) : ProbeHit(i) => file_to_load = StrV(ProbeOrder[i])
    /\ outcome = ConfigNotFound <=> \A i \in 1..Len(ProbeOrder) : ProbeOrder[i] \notin exists

\* C2 as stated: a path that is given (anything but None) and does not exist
\* makes resolution fail with ConfigNotFound, without probing; with no path
\* given the probe order decides.
C2_AsStated ==
    outcome # "idle" =>
        /\ (config_file # NoneV /\ config_file.s \notin exists)
             => (outcome = ConfigNotFound /\ file_to_load = NoneV)
        /\ config_file = NoneV => ProbedInOrder

\* C2, amended: a non-empty path that does not exist makes resolution fail
\* with ConfigNotFound, without probing, and one that exists is the file
\* loaded; with no path, or with the empty string as the path, the probe
\* order decides.
C2_SourceSelection ==
    outcome # "idle" =>
        /\ (Truthy(config_file) /\ config_file.s \notin exists)
             => (outcome = ConfigNotFound /\ file_to_load = NoneV)
        /\ (Truthy(config_file) /\ config_file.s \in exists) => file_to_load = config_file
        /\ ~Truthy(config_file) => ProbedInOrder

\* a missing explicit path fails although every conventional file exists
C2_Witness ==
    /\ config_file = StrV(CustomEnv)
    /\ exists = {MyConfigPy, ConfigEnv, DotEnv}
    /\ outcome = ConfigNotFound

\* C3: for a flat source, a numeric field whose key is absent holds its
\* default, one whose key is present with an integer literal holds that
\* integer, and a key present with any other text (the empty text too) makes
\* resolution fail with the int() ValueError: no Settings is returned.
C3_FlatIntegerFields ==
    (Loaded /\ source.kind = "flat") =>
        \A f \in NumericFields :
            LET d == FlatDict(source.lines)
                present == <<NumericKey(f)>> \in DOMAIN d
            IN  /\ (~present /\ outcome = "Settings")
                     => config[f] = IntV(NumericDefault(f))
                /\ (present /\ ~ParseInt(d[<<NumericKey(f)>>]).ok)
                     => (outcome = ConfigParseError /\ config = NoConfig)
                /\ (present /\ outcome = "Settings")
                     => config[f] = IntV(ParseInt(d[<<NumericKey(f)>>]).n)

\* both credentials are there and SEARCH_TIMEOUT= has no value: a parse failure
C3_Witness ==
    /\ source.kind = "flat"
    /\ source.lines = <<KV("API_KEY", <<"k">>), KV("TAVILY_API_KEY", <<"t">>),
                        KV("SEARCH_TIMEOUT", <<>>)>>
    /\ outcome = ConfigParseError

\* C7: a Settings that load_config returned with an empty base_url (None or
\* "") or an empty model cannot be made into a client: LLM(...) raises.
C7_EmptyEndpointOrModelRejected ==
    (outcome = "Settings" /\ llm_outcome # "idle"
        /\ (~NonEmpty(config.base_url) \/ ~NonEmpty(config.model)))
      => llm_outcome # "LLM"

\* C8: every numeric field of a Settings that load_config returned is an int.
C8_NumericFieldsAreIntegers ==
    outcome = "Settings" => \A f \in NumericFields : config[f].t = "int"

BasicNames == {"DEEPSEEK_BASE_URL", "DEEPSEEK_API_KEY", "DEEPSEEK_MODEL"}

AdvancedNames == {"OPENAI_BASE_URL", "OPENAI_API_KEY", "OPENAI_MODEL"}

\* base_url, api_key and model as the three named constants give them
FedBy(ns, url, key, model, default) ==
    /\ config.base_url = IF ns[url] = Undef \/ ~Truthy(ns[url]) THEN NoneV ELSE ns[url]
    /\ config.api_key = ns[key]
    /\ config.model = IF ns[model] = Undef THEN StrV(<<default>>) ELSE ns[model]

\* C9: for a structured source the profile decides the constants read:
\* basic reads the DEEPSEEK_ three, with model "deepseek-chat" when
\* DEEPSEEK_MODEL is not defined, advanced reads the OPENAI_ three, with
\* model "gpt-4o-mini" when OPENAI_MODEL is not defined, and redefining or
\* removing a constant of the other profile changes nothing of the result.
C9_ProfileDecides ==
    (Loaded /\ source.kind = "py" /\ method \in {"basic", "advanced"}) =>
        /\ (outcome = "Settings" /\ method = "basic") =>
              FedBy(source.ns, "DEEPSEEK_BASE_URL", "DEEPSEEK_API_KEY", "DEEPSEEK_MODEL",
                    "deepseek-chat")
        /\ (outcome = "Settings" /\ method = "advanced") =>
              FedBy(source.ns, "OPENAI_BASE_URL", "OPENAI_API_KEY", "OPENAI_MODEL",
                    "gpt-4o-mini")
        /\ \A name \in (IF method = "basic" THEN AdvancedNames ELSE BasicNames) :
              \A v \in PyValues(name) \cup {Undef} :
                 LET other == ParseAndValidate(file_to_load.s,
                                               [source EXCEPT !.ns[name] = v], method)
                 IN  /\ other.config = config
                     /\ other.err = (IF outcome = "Settings" THEN "" ELSE outcome)

\* advanced, no OPENAI_MODEL, and a DEEPSEEK_MODEL that must not be used
C9_Witness ==
    /\ source.kind = "py"
    /\ method = "advanced"
    /\ outcome = "Settings"
    /\ source.ns["OPENAI_MODEL"] = Undef
    /\ source.ns["DEEPSEEK_MODEL"] = StrV(<<"DEEPSEEK_MODEL">>)
    /\ config.model = StrV(<<"gpt-4o-mini">>)

Started == {i \in 1..MaxInvokes : calls[i].pc # "idle"}

\* C5: every invoke sends exactly one request, whether the provider answers
\* or fails; when the provider fails, invoke raises that same error, returns
\* no text, and the call has still sent one request only.
C5_OneRequestPerInvoke ==
    /\ \A i \in 1..MaxInvokes : calls[i].requests = (IF i \in Started THEN 1 ELSE 0)
    /\ providerCalls = Cardinality(Started)
    /\ \A i \in 1..MaxInvokes :
         calls[i].pc = "raised" => \E j \in 1..MaxInvokes : last.call = j
    /\ (last.call # 0 /\ last.reply.error # "") =>
         /\ last.raised = last.reply.error
         /\ last.value = Undef
         /\ calls[last.call].pc = "raised"
         /\ calls[last.call].requests = 1
    /\ (last.call # 0 /\ last.reply.error = "") => last.raised = ""

\* two invokes, the later one failed by the provider: two requests in all
C5_Witness ==
    /\ last.call # 0
    /\ last.raised = "APITimeoutError"
    /\ Started = 1..MaxInvokes
    /\ providerCalls = MaxInvokes

\* C6: a response with no candidates, or whose first candidate has no
\* message, makes invoke return "" and raise nothing; any other response
\* makes it return validate_response of the first candidate's content.
C6_FirstCandidate ==
    (last.call # 0 /\ last.reply.error = "") =>
        /\ last.raised = ""
        /\ calls[last.call].pc = "returned"
        /\ last.value =
             IF last.reply.choices = <<>> \/ ~last.reply.choices[1].message
             THEN StrV(<<>>)
             ELSE validate_response(last.reply.choices[1].content)

\* two candidates with different contents: the first one's is returned
C6_Witness ==
    /\ last.call # 0
    /\ Len(last.reply.choices) = 2
    /\ last.reply.choices[1] = [message |-> TRUE, content |-> StrV(<<"a">>)]
    /\ last.reply.choices[2] = [message |-> TRUE, content |-> StrV(<<"b">>)]
    /\ last.value = StrV(<<"a">>)

\* C10: the client keeps the api_key, base_url and model it was built with,
\* through every invoke and get_model_info, and get_model_info returns the
\* model name and the base_url given at construction.
C10_ModelInfoStable ==
    llm_outcome = "LLM" =>
        /\ client.api_key = llm_args.api_key
        /\ client.base_url = llm_args.base_url
        /\ client.model_name = llm_args.model_name
        /\ client.default_model = llm_args.model_name
        /\ info # NoInfo =>
             info = [model |-> llm_args.model_name, base_url |-> llm_args.base_url]

\* get_model_info answered while one invoke has failed and another waits
C10_Witness ==
    /\ info = [model |-> StrV(<<"m">>), base_url |-> StrV(<<"u">>)]
    /\ \E i, j \in 1..MaxInvokes : calls[i].pc = "raised" /\ calls[j].pc = "waiting"

====
